---- MODULE Spec2Model ----
(***************************************************************************)
(* The home map view of the store dashboard: filter state, the data       *)
(* derived from it, and the synchronisation of that data with the map     *)
(* engine (Mapbox GL), which becomes ready asynchronously.                *)
(*                                                                         *)
(* The repository holds several drafts of the same HomeMap component.     *)
(* The variable impl says which draft is mounted; every operator that     *)
(* models a draft carries the draft's name as a suffix:                   *)
(*   HomemapA  src/Homemap.jsx 1-375       HomemapB  src/Homemap.jsx 377-672 *)
(*   Part000a  src/unnamed/part_000 1-188  Part001   src/unnamed/part_001  *)
(*   Part003   src/unnamed/part_003        Part004a  src/unnamed/part_004 1-290 *)
(*   Part004b  src/unnamed/part_004 292-545  Part005 src/unnamed/part_005  *)
(*   Part006b  src/unnamed/part_006 329-673  PagesA  src/src/pages/HomeMap.jsx 1-274 *)
(*                                                                         *)
(* The first draft of part_000 elides its filter panel; its user events   *)
(* are modelled as calls of the state setters it declares (lines 26-28).  *)
(*                                                                         *)
(* The drafts read the same store attributes under different property     *)
(* names (division / p_division, assigned / is_assigned, dc_id / dc); a   *)
(* record field of the model stands for the attribute the draft reads.    *)
(***************************************************************************)
EXTENDS Integers, Sequences, FiniteSets, TLC

VARIABLES
    impl,          \* the draft of HomeMap that is mounted
    stores,        \* storesGeo.features: sequence of store property records
    dcs,           \* dcsGeo.features: sequence of DC property records
    division,      \* useState('All')
    dc,            \* useState('ALL')
    onlyAssigned,  \* useState(false)
    gen,           \* number of commits that changed the filter state so far
    phase,         \* "idle", or "effects" while a commit's effects are pending
    view,          \* what the committed render derived: the stores and the DC options
    prev,          \* filter state of the previous commit (effect dependencies)
    map,           \* the mapboxgl.Map instance: engine state, sources, layers
    onceLoad,      \* closures registered with map.once('load', ...) by effects
    ready,         \* the draft's readiness handler has run (mapReady.current)
    readyGen,      \* value of gen when ready became true, -1 before
    work,          \* how often each part of the ready-time work was executed
    calls,         \* calls issued to the map by the last action, in order
    last,          \* the last action: its kind and argument
    period,        \* useState('DAILY') of the drafts with a reporting period
    nav,           \* the navigation intent the last store click emitted
    timers         \* the callbacks of setTimeout / requestAnimationFrame that are pending

vars == <<impl, stores, dcs, division, dc, onlyAssigned, gen, phase, view, prev,
          map, onceLoad, ready, readyGen, work, calls, last, period, nav, timers>>

-----------------------------------------------------------------------------
(* Bounds *)

\* number of store features in a generated data set
NumStores == 2
\* number of filter changes the user makes
MaxChanges == 3

-----------------------------------------------------------------------------
(* Data *)

All == "All"
ALL == "ALL"

Drafts == {"HomemapA", "HomemapB", "Part000a", "Part001", "Part003",
           "Part004a", "Part004b", "Part005", "Part006b", "PagesA"}

DIVISIONS == <<"All", "Northern", "Southern", "Eastern", "Midwestern">>

DivisionSet == {DIVISIONS[i] : i \in 1..Len(DIVISIONS)}

\* divisions and DC ids that the generated store features carry
DataDivisions == {"Northern", "Southern"}
DcIds == {"ATL", "SEA"}

\* String order of the DC ids, as Array.prototype.sort() compares them
DcRank(id) == CASE id = "ATL" -> 1 [] id = "SEA" -> 2 [] OTHER -> 0

\* health values are counted in thousandths: 79999 stands for 79.999.  The
\* values at and just below the two thresholds of the colour scale
HealthValues == {59999, 60000, 79999, 80000}

StoreRec == [division : DataDivisions, dc_id : DcIds, assigned : BOOLEAN,
             country : {"USA"}, health : {80000}]

Store(div, d, a, h) ==
    [division |-> div, dc_id |-> d, assigned |-> a, country |-> "USA", health |-> h]

Dc(d, div, a) == [dc_id |-> d, division |-> div, assigned |-> a]

\* every data set of NumStores stores
StoreSets == [1..NumStores -> StoreRec]

\* the data sets the component is mounted with: stores A, B (Southern, ATL) and
\* C (Northern, SEA) with the DC features in file order, and a variant in which
\* a store of the Northern division is served by the Southern DC
Scenarios ==
    { [stores |-> <<Store("Southern", "ATL", TRUE, 85000),
                    Store("Southern", "ATL", FALSE, 55000),
                    Store("Northern", "SEA", TRUE, 70000)>>,
       dcs    |-> <<Dc("SEA", "Northern", FALSE), Dc("ATL", "Southern", TRUE)>>],
      [stores |-> <<Store("Southern", "ATL", TRUE, 80000),
                    Store("Northern", "ATL", FALSE, 60000),
                    Store("Northern", "SEA", FALSE, 79999)>>,
       dcs    |-> <<Dc("ATL", "Southern", FALSE), Dc("SEA", "Northern", FALSE)>>] }

\* the store features st with the health values hs
WithHealth(st, hs) == [i \in DOMAIN st |-> [st[i] EXCEPT !.health = hs[i]]]

\* the division pills the user clicks; "Midwestern" behaves as "Eastern" does
ClickedDivisions == {"All", "Northern", "Southern", "Eastern"}

StoreIds == DOMAIN stores

FilterState == [division : DivisionSet, dc : DcIds \cup {ALL}, onlyAssigned : BOOLEAN]

Filter(d, c, a) == [division |-> d, dc |-> c, onlyAssigned |-> a]

\* the state of a draft's first render
MountFilter == Filter(All, ALL, FALSE)

Current == Filter(division, dc, onlyAssigned)

-----------------------------------------------------------------------------
(* Sequences *)

Range(s) == {s[i] : i \in DOMAIN s}

RECURSIVE SortIds(_)
\* Array.from(set).sort()
SortIds(S) ==
    IF S = {} THEN <<>>
    ELSE LET m == CHOOSE x \in S : \A y \in S : DcRank(x) <= DcRank(y)
         IN <<m>> \o SortIds(S \ {m})

RECURSIVE Dedupe(_)
\* new Set(list) / new Map(entries): first occurrences, in insertion order
Dedupe(s) ==
    IF s = <<>> THEN <<>>
    ELSE LET r == Dedupe(SubSeq(s, 1, Len(s) - 1))
             x == s[Len(s)]
         IN IF x \in Range(r) THEN r ELSE Append(r, x)

RECURSIVE SelectDcs(_, _, _)
\* dcsGeo.features.filter(...): the features kept, in file order
SelectDcs(s, d, a) ==
    IF s = <<>> THEN <<>>
    ELSE LET r == SelectDcs(SubSeq(s, 1, Len(s) - 1), d, a)
             x == s[Len(s)]
         IN IF (d = All \/ x.division = d) /\ (~a \/ x.assigned = TRUE)
            THEN Append(r, x) ELSE r

IdsOf(s) == [i \in DOMAIN s |-> s[i].dc_id]

-----------------------------------------------------------------------------
(* Derived data: the visible stores of each draft, as a set of store ids *)

\* src/Homemap.jsx 58-64
filteredStores_HomemapA(f) ==
    LET byDivision == {i \in StoreIds : f.division = All \/ stores[i].division = f.division}
        byAssigned == IF f.onlyAssigned
                      THEN {i \in byDivision : stores[i].assigned = TRUE}
                      ELSE byDivision
    IN IF f.dc # ALL THEN {i \in byAssigned : stores[i].dc_id = f.dc} ELSE byAssigned

\* src/Homemap.jsx 413-423
filteredStores_HomemapB(f) ==
    {i \in StoreIds :
        /\ ~(stores[i].country # "USA")
        /\ ~(f.division # All /\ stores[i].division # f.division)
        /\ ~(f.dc # ALL /\ stores[i].dc_id # f.dc)
        /\ ~(f.onlyAssigned /\ ~stores[i].assigned)}

\* src/unnamed/part_000 31-41, with country = 'USA'
filteredGeo_Part000a(f) ==
    {i \in StoreIds :
        /\ ~(stores[i].country # "USA")
        /\ ~(f.division # All /\ stores[i].division # f.division)
        /\ ~(f.dc # ALL /\ stores[i].dc_id # f.dc)
        /\ ~(f.onlyAssigned /\ ~stores[i].assigned)}

\* src/unnamed/part_001 29-39
filteredGeo_Part001(f) ==
    {i \in StoreIds :
        /\ ~(stores[i].country # "USA")
        /\ ~(f.division # All /\ stores[i].division # f.division)
        /\ ~(f.dc # ALL /\ stores[i].dc_id # f.dc)
        /\ ~(f.onlyAssigned /\ ~stores[i].assigned)}

\* src/unnamed/part_003 39-48
filteredStores_Part003(f) ==
    {i \in StoreIds :
        /\ ~(f.division # All /\ stores[i].division # f.division)
        /\ ~(f.dc # ALL /\ stores[i].dc_id # f.dc)
        /\ ~(f.onlyAssigned /\ ~stores[i].assigned)}

\* src/unnamed/part_004 45-54
filteredGeo_Part004a(f) ==
    {i \in StoreIds :
        /\ ~(f.division # All /\ stores[i].division # f.division)
        /\ ~(f.dc # ALL /\ stores[i].dc_id # f.dc)
        /\ ~(f.onlyAssigned /\ ~stores[i].assigned)}

\* src/unnamed/part_004 311-320
filteredStores_Part004b(f) ==
    {i \in StoreIds :
        /\ ~(f.onlyAssigned /\ ~stores[i].assigned)
        /\ ~(f.division # All /\ stores[i].division # f.division)
        /\ ~(f.dc # ALL /\ stores[i].dc_id # f.dc)}

\* src/unnamed/part_005 56-66, with country = 'USA'
filteredStores_Part005(f) ==
    {i \in StoreIds :
        /\ ~(stores[i].country # "USA")
        /\ ~(f.division # All /\ stores[i].division # f.division)
        /\ ~(f.dc # ALL /\ stores[i].dc_id # f.dc)
        /\ ~(f.onlyAssigned /\ stores[i].assigned # TRUE)}

\* a filter that forgets the DC predicate
filteredStores_ignoringDc(f) ==
    {i \in StoreIds :
        /\ ~(f.division # All /\ stores[i].division # f.division)
        /\ ~(f.onlyAssigned /\ ~stores[i].assigned)}

\* src/unnamed/part_006 429-437
filteredStores_Part006b(f) ==
    {i \in StoreIds :
        /\ ~(f.division # All /\ stores[i].division # f.division)
        /\ ~(f.dc # ALL /\ stores[i].dc_id # f.dc)
        /\ ~(f.onlyAssigned /\ ~stores[i].assigned)}

\* src/src/pages/HomeMap.jsx 27-43
filteredGeo_PagesA(f) ==
    {i \in StoreIds :
        /\ ~(stores[i].country # "USA")
        /\ ~(f.division # All /\ stores[i].division # f.division)
        /\ ~(f.dc # ALL /\ stores[i].dc_id # f.dc)
        /\ ~(f.onlyAssigned /\ ~stores[i].assigned)}

\* the store collection the mounted draft derives from filter state f
visibleStores(v, f) ==
    CASE v = "HomemapA" -> filteredStores_HomemapA(f)
      [] v = "HomemapB" -> filteredStores_HomemapB(f)
      [] v = "Part000a" -> filteredGeo_Part000a(f)
      [] v = "Part001"  -> filteredGeo_Part001(f)
      [] v = "Part003"  -> filteredStores_Part003(f)
      [] v = "Part004a" -> filteredGeo_Part004a(f)
      [] v = "Part004b" -> filteredStores_Part004b(f)
      [] v = "Part005"  -> filteredStores_Part005(f)
      [] v = "Part006b" -> filteredStores_Part006b(f)
      [] v = "PagesA"   -> filteredGeo_PagesA(f)

-----------------------------------------------------------------------------
(* Derived data: the visible DC features (drafts with a DC layer) *)

\* src/Homemap.jsx 51-56
filteredDcs_HomemapA(f) == SelectDcs(dcs, f.division, f.onlyAssigned)

RECURSIVE SumHealth(_)
\* o.sum += h over the store features S
SumHealth(S) ==
    IF S = {} THEN 0
    ELSE LET i == CHOOSE x \in S : TRUE
         IN stores[i].health + SumHealth(S \ {i})

\* a roll-up over the stores that the current filter state shows
buildDcRollups_visible(S) ==
    LET shown == {i \in S : /\ division = All \/ stores[i].division = division
                            /\ dc = ALL \/ stores[i].dc_id = dc
                            /\ ~onlyAssigned \/ stores[i].assigned}
    IN [d \in {stores[i].dc_id : i \in shown} |->
           [sum |-> SumHealth({i \in shown : stores[i].dc_id = d}),
            n   |-> Cardinality({i \in shown : stores[i].dc_id = d})]]

\* src/unnamed/part_006 353-366: the average sum / n of each DC of the store
\* features S, kept as the pair of its numerator and its denominator
buildDcRollups(S) ==
    [d \in {stores[i].dc_id : i \in S} |->
        [sum |-> SumHealth({i \in S : stores[i].dc_id = d}),
         n   |-> Cardinality({i \in S : stores[i].dc_id = d})]]

\* src/unnamed/part_006 405-406
dcHealth == buildDcRollups(StoreIds)

\* src/unnamed/part_006 407-417: rollup_health is dcHealth.get(dc_id) ?? 0
dcsEnriched ==
    [i \in DOMAIN dcs |->
        [dc_id |-> dcs[i].dc_id, division |-> dcs[i].division, assigned |-> dcs[i].assigned,
         rollup_health |-> IF dcs[i].dc_id \in DOMAIN dcHealth THEN dcHealth[dcs[i].dc_id]
                           ELSE [sum |-> 0, n |-> 1]]]

\* src/unnamed/part_006 420-427
filteredDcs_Part006b(f) == SelectDcs(dcsEnriched, f.division, f.onlyAssigned)

HasDcLayer(v) == v \in {"HomemapA", "Part006b"}

\* the DC features the mounted draft derives from filter state f
dcFeatures(v, f) ==
    CASE v = "HomemapA" -> filteredDcs_HomemapA(f)
      [] v = "Part006b" -> filteredDcs_Part006b(f)
      [] OTHER -> <<>>

\* ids of the DC features the mounted draft derives from filter state f
visibleDcs(v, f) ==
    CASE v = "HomemapA" -> Range(IdsOf(filteredDcs_HomemapA(f)))
      [] v = "Part006b" -> Range(IdsOf(filteredDcs_Part006b(f)))
      [] OTHER -> {}

-----------------------------------------------------------------------------
(* The colour scale of health *)

\* src/Homemap.jsx 27-29
C_GREEN == "#22FFAA"
C_AMBER == "#FFDF5A"
C_RED == "#FF5A5C"

\* src/unnamed/part_006 345-349
HEALTH == [GOOD |-> "#2DFFAA", WATCH |-> "#FFD24A", RISK |-> "#FF5A5C"]

\* a colour scale that takes its thresholds as strict lower bounds
healthToColor_strict(h) ==
    IF h > 80000 THEN C_GREEN ELSE IF h > 60000 THEN C_AMBER ELSE C_RED

\* src/Homemap.jsx 35-39
healthToColor(h) ==
    IF h >= 80000 THEN C_GREEN ELSE IF h >= 60000 THEN C_AMBER ELSE C_RED

\* src/unnamed/part_006 368-376: the case expression, as the engine evaluates
\* it for a feature whose property is h
healthColorExpr(h) ==
    IF h >= 80000 THEN HEALTH.GOOD ELSE IF h >= 60000 THEN HEALTH.WATCH ELSE HEALTH.RISK

\* the 'circle-color' of a store feature of health h; the drafts other than the
\* second of part_006 repeat the thresholds of healthToColor in their layers
circleColor(v, h) == IF v = "Part006b" THEN healthColorExpr(h) ELSE healthToColor(h)

-----------------------------------------------------------------------------
(* Derived data: the option list of the DC selector *)

\* ids of the stores of division d
DcIdsOfDivision(d) ==
    {stores[i].dc_id : i \in {j \in StoreIds : d = All \/ stores[j].division = d}}

\* src/Homemap.jsx 67-71: one entry per DC feature, without "ALL"
dcOptions_HomemapA(f) == Dedupe(IdsOf(filteredDcs_HomemapA(f)))

\* src/Homemap.jsx 292-297: the <select> puts the ALL option first
options_HomemapA(f) == <<ALL>> \o dcOptions_HomemapA(f)

\* src/Homemap.jsx 426-430
dcOptions_HomemapB(f) ==
    <<ALL>> \o SortIds({stores[i].dc_id : i \in filteredStores_HomemapB(f)})

\* src/unnamed/part_000 44-48
dcOptions_Part000a(f) ==
    <<ALL>> \o SortIds({stores[i].dc_id : i \in filteredGeo_Part000a(f)})

\* src/unnamed/part_001 42-46
dcOptions_Part001(f) ==
    <<ALL>> \o SortIds({stores[i].dc_id : i \in filteredGeo_Part001(f)})

\* src/unnamed/part_003 29-37
dcOptions_Part003(f) ==
    <<ALL>> \o SortIds({stores[i].dc_id :
        i \in {j \in StoreIds : ~(f.division # All /\ stores[j].division # f.division)}})

\* src/unnamed/part_004 57-66
dcOptions_Part004a(f) ==
    <<ALL>> \o SortIds({stores[i].dc_id :
        i \in {j \in StoreIds : ~(f.division # All /\ stores[j].division # f.division)}})

\* src/unnamed/part_004 322-329
dcOptions_Part004b(f) ==
    <<ALL>> \o SortIds({stores[i].dc_id :
        i \in {j \in StoreIds : f.division = All \/ stores[j].division = f.division}})

\* src/unnamed/part_005 33-42
buildDcOptions(filtered, d, country) ==
    <<ALL>> \o SortIds({stores[i].dc_id :
        i \in {j \in filtered : /\ (d = All \/ stores[j].division = d)
                                /\ stores[j].country = country
                                /\ stores[j].dc_id # ALL}})

\* src/unnamed/part_005 68-71
dcOptions_Part005(f) == buildDcOptions(StoreIds, f.division, "USA")

\* src/unnamed/part_006 620-623
dcOptions_Part006b(f) == <<ALL>> \o Dedupe(IdsOf(filteredDcs_Part006b(f)))

\* src/src/pages/HomeMap.jsx 46-56
dcOptions_PagesA(f) ==
    <<ALL>> \o SortIds({stores[i].dc_id :
        i \in {j \in StoreIds : /\ ~(stores[j].country # "USA")
                                /\ ~(f.division # All /\ stores[j].division # f.division)
                                /\ ~(f.onlyAssigned /\ ~stores[j].assigned)}})

\* the values the DC <select> of the mounted draft offers in filter state f
dcOptions(v, f) ==
    CASE v = "HomemapA" -> options_HomemapA(f)
      [] v = "HomemapB" -> dcOptions_HomemapB(f)
      [] v = "Part000a" -> dcOptions_Part000a(f)
      [] v = "Part001"  -> dcOptions_Part001(f)
      [] v = "Part003"  -> dcOptions_Part003(f)
      [] v = "Part004a" -> dcOptions_Part004a(f)
      [] v = "Part004b" -> dcOptions_Part004b(f)
      [] v = "Part005"  -> dcOptions_Part005(f)
      [] v = "Part006b" -> dcOptions_Part006b(f)
      [] v = "PagesA"   -> dcOptions_PagesA(f)

-----------------------------------------------------------------------------
(* The map engine (mapbox-gl), as the drafts use it.                       *)
(* A handler or effect is a sequence of calls; each call takes the machine *)
(* m = [s: state of the map, log: calls issued so far, rdy: ready flag]    *)
(* and returns the machine after the call.                                 *)

NoData == [gen |-> -1, feats |-> {}]

\* new mapboxgl.Map({...}): the style is requested, nothing is loaded yet
\* zoom levels are counted in tenths: 66 stands for the zoom 6.6
Z_DC == 48
Z_STORES == 66
ZOOM_THRESHOLD == 60
\* the zoom the map is constructed with, at which the national bounds fit
USA_ZOOM == 33
\* the zoom flyToDC ends at
DC_ZOOM == 82
\* the zooms a zoom or move can end at: one below both thresholds, one between
\* them and one above both
ZoomLevels == {USA_ZOOM, ZOOM_THRESHOLD, DC_ZOOM}

NewMap ==
    [engine |-> "loading",    \* "loading" -> "styled" ('style.load') -> "loaded" ('load')
     styleLoaded |-> FALSE,   \* what map.isStyleLoaded() returns
     removed |-> FALSE,       \* map.remove() was called
     sources |-> {},          \* ids of the sources of the style
     layers |-> {},           \* ids of the layers the draft added
     hidden |-> {},           \* layers whose visibility is 'none'
     zoom |-> USA_ZOOM,       \* what map.getZoom() returns
     target |-> [k |-> "usa", v |-> ""],  \* the region the camera was last sent to
     storesData |-> NoData,   \* data of the source 'stores' and the render it is from
     dcsData |-> NoData]      \* data of the source 'dcs'

NoArg == [k |-> "", v |-> ""]

Machine(s, rdy) == [s |-> s, log |-> <<>>, rdy |-> rdy]

Logged(m, op, id, g, arg, ok) ==
    [m EXCEPT !.log = Append(@, [op |-> op, id |-> id, gen |-> g, arg |-> arg,
                                 rdy |-> m.rdy, ok |-> ok])]

\* map.isStyleLoaded(): false without a style (before it arrives and after remove())
isStyleLoaded(m) == ~m.s.removed /\ m.s.engine # "loading" /\ m.s.styleLoaded

getSource(m, id) == id \in m.s.sources

getLayer(m, id) == id \in m.s.layers

\* map.addSource(id, {type: 'geojson', data}): refused while the style is loading
\* and for an id that exists; a new source has to load before the style is loaded again
addSource(m, id, g, feats) ==
    LET ok == m.s.engine # "loading" /\ ~m.s.removed /\ id \notin m.s.sources
        s1 == [m.s EXCEPT !.sources = @ \cup {id}, !.styleLoaded = FALSE]
        s2 == CASE id = "stores" -> [s1 EXCEPT !.storesData = [gen |-> g, feats |-> feats]]
                [] id = "dcs"    -> [s1 EXCEPT !.dcsData = [gen |-> g, feats |-> feats]]
                [] OTHER         -> s1
    IN Logged([m EXCEPT !.s = IF ok THEN s2 ELSE m.s], "addSource", id, g, NoArg, ok)

\* map.removeSource(id)
removeSource(m, id) ==
    LET ok == id \in m.s.sources
    IN Logged([m EXCEPT !.s.sources = @ \ {id}], "removeSource", id, -1, NoArg, ok)

\* map.addLayer({id, source, layout}): visible unless layout.visibility is 'none'
addLayer(m, id, visibility) ==
    LET ok == m.s.engine # "loading" /\ ~m.s.removed /\ id \notin m.s.layers
        s1 == [m.s EXCEPT !.layers = @ \cup {id},
                          !.hidden = IF visibility = "none" THEN @ \cup {id} ELSE @ \ {id}]
    IN Logged([m EXCEPT !.s = IF ok THEN s1 ELSE m.s], "addLayer", id, -1, NoArg, ok)

\* map.removeLayer(id)
removeLayer(m, id) ==
    LET ok == id \in m.s.layers
    IN Logged([m EXCEPT !.s.layers = @ \ {id}, !.s.hidden = @ \ {id}],
              "removeLayer", id, -1, NoArg, ok)

\* source.setData(data): the source reloads, the style is not loaded meanwhile
setData(m, id, g, feats) ==
    LET ok == id \in m.s.sources
        s1 == [m.s EXCEPT !.styleLoaded = FALSE]
        s2 == CASE id = "stores" -> [s1 EXCEPT !.storesData = [gen |-> g, feats |-> feats]]
                [] id = "dcs"    -> [s1 EXCEPT !.dcsData = [gen |-> g, feats |-> feats]]
                [] OTHER         -> s1
    IN Logged([m EXCEPT !.s = IF ok THEN s2 ELSE m.s], "setData", id, g, NoArg, ok)

\* map.setFilter(layer, expr): an error event when the layer does not exist
setFilter(m, id, arg) == Logged(m, "setFilter", id, -1, arg, id \in m.s.layers)

\* map.setPaintProperty(layer, name, value)
setPaintProperty(m, id, arg) == Logged(m, "setPaintProperty", id, -1, arg, id \in m.s.layers)

\* map.setLayoutProperty(layer, 'visibility', value)
setLayoutProperty(m, id, visibility) ==
    LET ok == id \in m.s.layers
        h == IF ~ok THEN m.s.hidden
             ELSE IF visibility = "none" THEN m.s.hidden \cup {id} ELSE m.s.hidden \ {id}
    IN Logged([m EXCEPT !.s.hidden = h], "setLayoutProperty", id, -1,
              [k |-> "visibility", v |-> visibility], ok)

\* the pitch of a camera command that leaves the pitch of the map as it is
KeepPitch == -1

\* map.fitBounds / map.flyTo / map.easeTo with the option pitch: a camera
\* command towards a target, which supersedes the command in flight; a command
\* that only tilts keeps the target
cameraAt(m, op, kind, key, pitch) ==
    Logged([m EXCEPT !.s.target = IF kind = "tilt" THEN @ ELSE [k |-> kind, v |-> key]],
           op, "camera", -1, [k |-> kind, v |-> key, pitch |-> pitch], TRUE)

\* a camera command without the option pitch: fitBounds computes its camera for
\* pitch 0, flyTo and easeTo keep the pitch of the map
camera(m, op, kind, key) ==
    cameraAt(m, op, kind, key, IF op = "fitBounds" THEN 0 ELSE KeepPitch)

\* map.on(type, layer, listener): one more listener of that type on the layer
on(m, type, id) == Logged(m, "on", id, -1, [k |-> type, v |-> ""], TRUE)

\* the minzoom of the layers a draft declares one for
minzoom(id) ==
    CASE id \in {"dc-circles", "dc-ring"} -> Z_DC
      [] id = "stores-circles" -> Z_STORES
      [] id = "stores-circle" -> ZOOM_THRESHOLD
      [] OTHER -> 0

\* the layer id of the map state s is drawn: it exists, its visibility is not
\* 'none' and the zoom is not below its minzoom
rendered(s, id) == id \in s.layers \ s.hidden /\ s.zoom >= minzoom(id)

\* the calls that push source data or change a layer
Mutations == {"setData", "setFilter", "setPaintProperty", "setLayoutProperty",
              "addLayer", "removeLayer"}

\* regionsGeo: the divisions and the DCs that have a polygon of their own
RegionDivisions == {"Northern", "Southern", "Eastern", "Midwestern"}
RegionDcs == {"ATL"}

-----------------------------------------------------------------------------
(* Readiness handlers.  c = [gen, f] is the render whose values the handler *)
(* closes over: the handler is created by the init effect of that render.  *)

Closure(g, f) == [gen |-> g, f |-> f]

\* src/Homemap.jsx 88-215: map.on("load", ...)
onLoad_HomemapA(m, c) ==
    LET m1  == addSource(m, "regions", -1, {})
        m2  == addSource(m1, "dcs", c.gen, Range(IdsOf(filteredDcs_HomemapA(c.f))))
        m3  == addSource(m2, "stores", c.gen, filteredStores_HomemapA(c.f))
        m4  == addLayer(m3, "region-lines", "visible")
        m5  == addLayer(m4, "dc-circles", "visible")
        m6  == addLayer(m5, "dc-ring", "visible")
        m7  == addLayer(m6, "stores-circles", "none")
        m8  == on(m7, "mouseenter", "dc-circles")
        m9  == on(m8, "mouseleave", "dc-circles")
        m10 == on(m9, "mousemove", "stores-circles")
        m11 == on(m10, "mouseleave", "stores-circles")
        m12 == on(m11, "click", "dc-circles")
        m13 == on(m12, "zoomend", "map")
    IN camera(m13, "fitBounds", "usa", "")

\* src/Homemap.jsx 596-629
fitToCurrent_HomemapB(m, storesFC, div, d) ==
    IF ~m.rdy THEN m
    ELSE IF d # ALL /\ d \in RegionDcs THEN cameraAt(m, "fitBounds", "dc", d, 35)
    ELSE IF div # All /\ div \in RegionDivisions
         THEN cameraAt(m, "fitBounds", "division", div, 25)
    ELSE IF storesFC # {} THEN camera(m, "fitBounds", "stores", "")
    ELSE camera(m, "fitBounds", "usa", "")

\* src/Homemap.jsx 452-551: map.on('load', ...), which sets mapReady.current first
onLoad_HomemapB(m, c) ==
    LET m0  == [m EXCEPT !.rdy = TRUE]
        m1  == addSource(m0, "regions", -1, {})
        m2  == addSource(m1, "stores", c.gen, filteredStores_HomemapB(c.f))
        m3  == addLayer(m2, "region-outline", "visible")
        m4  == addLayer(m3, "region-extrude", "visible")
        m5  == addLayer(m4, "stores-glow", "visible")
        m6  == addLayer(m5, "stores-core", "visible")
        m7  == on(m6, "mouseenter", "stores-core")
        m8  == on(m7, "mouseleave", "stores-core")
        m9  == on(m8, "mousemove", "stores-core")
        m10 == on(m9, "mouseleave", "stores-core")
        m11 == on(m10, "click", "stores-core")
    IN fitToCurrent_HomemapB(m11, filteredStores_HomemapB(c.f), c.f.division, c.f.dc)

\* the five listeners every draft puts on the layer 'stores-core'
wireStoresCore(m) ==
    LET m1 == on(m, "mouseenter", "stores-core")
        m2 == on(m1, "mouseleave", "stores-core")
        m3 == on(m2, "click", "stores-core")
        m4 == on(m3, "mousemove", "stores-core")
    IN on(m4, "mouseleave", "stores-core")

\* src/unnamed/part_000 70-145: map.on('load', ...)
onLoad_Part000a(m, c) ==
    LET m1 == IF ~getSource(m, "stores")
              THEN addSource(m, "stores", c.gen, filteredGeo_Part000a(c.f)) ELSE m
        m2 == IF ~getLayer(m1, "stores-glow") THEN addLayer(m1, "stores-glow", "visible") ELSE m1
        m3 == IF ~getLayer(m2, "stores-core") THEN addLayer(m2, "stores-core", "visible") ELSE m2
    IN wireStoresCore(m3)

\* src/unnamed/part_000 157-168: apply, closing over the filteredGeo of render c
apply_Part000a(m, c) ==
    IF getSource(m, "stores")
    THEN LET m1 == setData(m, "stores", c.gen, filteredGeo_Part000a(c.f))
         IN IF filteredGeo_Part000a(c.f) # {} THEN camera(m1, "fitBounds", "stores", "") ELSE m1
    ELSE m

\* src/unnamed/part_001 66-132: map.on('load', ...)
onLoad_Part001(m, c) ==
    LET m1 == addSource(m, "stores", c.gen, filteredGeo_Part001(c.f))
        m2 == addLayer(m1, "stores-glow", "visible")
        m3 == addLayer(m2, "stores-core", "visible")
    IN wireStoresCore(m3)

\* src/unnamed/part_003 50-68, with the division of the render that made the function
fitToCurrent_Part003(m, div) ==
    IF div = All
    THEN LET m1 == camera(m, "fitBounds", "usa", "")
             m2 == setFilter(m1, "div-outline", [k |-> "in", v |-> "DIVISIONS"])
         IN setFilter(m2, "div-extrude", [k |-> "in", v |-> "DIVISIONS"])
    ELSE LET m1 == IF div \in RegionDivisions
                   THEN camera(m, "fitBounds", "division", div) ELSE m
             m2 == setFilter(m1, "div-outline", [k |-> "name", v |-> div])
         IN setFilter(m2, "div-extrude", [k |-> "name", v |-> div])

\* src/unnamed/part_003 94-190: map.on('style.load', ...)
onStyleLoad_Part003(m, c) ==
    LET m1 == addSource(m, "divisions", -1, {})
        m2 == addSource(m1, "stores", c.gen, filteredStores_Part003(c.f))
        m3 == addLayer(m2, "div-outline", "visible")
        m4 == addLayer(m3, "div-extrude", "visible")
        m5 == addLayer(m4, "stores-glow", "visible")
        m6 == addLayer(m5, "stores-core", "visible")
        m7 == wireStoresCore(m6)
    IN fitToCurrent_Part003(m7, c.f.division)

\* src/unnamed/part_004 84-168: map.on('load', ...)
onLoad_Part004a(m, c) ==
    LET m1 == addSource(m, "stores", c.gen, filteredGeo_Part004a(c.f))
        m2 == addLayer(m1, "stores-glow", "visible")
        m3 == addLayer(m2, "stores-core", "visible")
    IN wireStoresCore(m3)

\* src/unnamed/part_004 506-522
fitToCurrent_Part004b(m, feats, div, d) ==
    IF feats = {} THEN m
    ELSE IF d # ALL THEN camera(m, "flyTo", "dc", d)
    ELSE IF div # All /\ div \in RegionDivisions THEN camera(m, "fitBounds", "division", div)
    ELSE camera(m, "fitBounds", "stores", "")

\* src/unnamed/part_004 331-336
activeRegionFeature_Part004b(f) ==
    IF f.division = All THEN "null"
    ELSE IF f.division \in RegionDivisions THEN f.division ELSE "null"

\* src/unnamed/part_004 524-534
updateRegionHighlight_Part004b(m, regionFeature) ==
    IF ~getLayer(m, "region-outline") \/ ~getLayer(m, "region-extrusion") THEN m
    ELSE LET name == IF regionFeature = "null" THEN "___none___" ELSE regionFeature
             m1 == setFilter(m, "region-outline", [k |-> "division", v |-> name])
         IN setFilter(m1, "region-extrusion", [k |-> "division", v |-> name])

\* src/unnamed/part_004 351-445: onStyleReady, on 'style.load' and on 'load'
onStyleReady_Part004b(m, c) ==
    IF getSource(m, "stores") THEN m
    ELSE LET m1 == addSource(m, "regions", -1, {})
             m2 == addLayer(m1, "region-extrusion", "visible")
             m3 == addLayer(m2, "region-outline", "visible")
             m4 == addSource(m3, "stores", c.gen, filteredStores_Part004b(c.f))
             m5 == addLayer(m4, "stores-glow", "visible")
             m6 == addLayer(m5, "stores-core", "visible")
             m7 == wireStoresCore(m6)
             m8 == fitToCurrent_Part004b(m7, filteredStores_Part004b(c.f),
                                         c.f.division, c.f.dc)
         IN updateRegionHighlight_Part004b(m8, activeRegionFeature_Part004b(c.f))

\* src/unnamed/part_005 251-258, with the filteredStores of render c
updateStoresSource_Part005(m, c) ==
    IF getSource(m, "stores") /\ isStyleLoaded(m)
    THEN setData(m, "stores", c.gen, filteredStores_Part005(c.f))
    ELSE m

\* src/unnamed/part_005 107-222: map.on('load', ...)
onLoad_Part005(m, c) ==
    LET m1 == IF ~getSource(m, "regions") THEN addSource(m, "regions", -1, {}) ELSE m
        m2 == IF ~getSource(m1, "stores")
              THEN addSource(m1, "stores", c.gen, filteredStores_Part005(c.f)) ELSE m1
        m3 == IF ~getLayer(m2, "region-line-glow")
              THEN addLayer(m2, "region-line-glow", "none") ELSE m2
        m4 == IF ~getLayer(m3, "region-line-bright")
              THEN addLayer(m3, "region-line-bright", "none") ELSE m3
        m5 == IF ~getLayer(m4, "stores-glow") THEN addLayer(m4, "stores-glow", "visible") ELSE m4
        m6 == IF ~getLayer(m5, "stores-core") THEN addLayer(m5, "stores-core", "visible") ELSE m5
        m7 == wireStoresCore(m6)
    IN updateStoresSource_Part005(m7, c)

\* src/unnamed/part_006 455-573: map.on("load", ...)
onLoad_Part006b(m, c) ==
    LET m1  == addSource(m, "regions", -1, {})
        m2  == addLayer(m1, "region-lines", "visible")
        m3  == addSource(m2, "dcs", c.gen, Range(IdsOf(filteredDcs_Part006b(c.f))))
        m4  == addLayer(m3, "dcs-circle", "visible")
        m5  == addSource(m4, "stores", c.gen, filteredStores_Part006b(c.f))
        m6  == addLayer(m5, "stores-circle", "none")
        m7  == on(m6, "mousemove", "dcs-circle")
        m8  == on(m7, "mouseleave", "dcs-circle")
        m9  == on(m8, "click", "dcs-circle")
        m10 == on(m9, "mousemove", "stores-circle")
        m11 == on(m10, "mouseleave", "stores-circle")
        m12 == on(m11, "click", "stores-circle")
    IN on(m12, "moveend", "map")

\* src/src/pages/HomeMap.jsx 84-163: onStyleLoaded, once on 'style.load' and once on 'load'
onStyleLoaded_PagesA(m, c) ==
    LET m1 == IF ~getSource(m, "stores")
              THEN addSource(m, "stores", c.gen, filteredGeo_PagesA(c.f)) ELSE m
        m2 == IF ~getLayer(m1, "stores-glow") THEN addLayer(m1, "stores-glow", "visible") ELSE m1
        m3 == IF ~getLayer(m2, "stores-core") THEN addLayer(m2, "stores-core", "visible") ELSE m2
    IN wireStoresCore(m3)

-----------------------------------------------------------------------------
(* Effects that follow a commit.  c = [gen, f] is the committed render.    *)

\* map.remove(): the style, its sources and its layers are gone
remove(m) ==
    Logged([m EXCEPT !.s.removed = TRUE, !.s.sources = {}, !.s.layers = {},
                     !.s.hidden = {}],
           "remove", "map", -1, NoArg, TRUE)

\* src/Homemap.jsx 339-350
setDivisionGlow_HomemapA(m, div) ==
    IF getLayer(m, "region-lines")
    THEN LET m1 == setPaintProperty(m, "region-lines",
                       [k |-> "line-opacity", v |-> IF div = All THEN "0.0" ELSE "0.55"])
         IN setFilter(m1, "region-lines",
                [k |-> "division", v |-> IF div # All THEN div ELSE "null"])
    ELSE m

\* src/Homemap.jsx 352-370
flyToDC_HomemapA(m, id) ==
    LET m1 == cameraAt(m, "flyTo", "dc", id, 45)
    IN IF getLayer(m1, "dc-ring")
       THEN setPaintProperty(setFilter(m1, "dc-ring", [k |-> "dc_id", v |-> id]),
                             "dc-ring", [k |-> "circle-stroke-opacity", v |-> "0.85"])
       ELSE m1

\* src/Homemap.jsx 372-375
showStores_HomemapA(m, visible) ==
    IF ~getLayer(m, "stores-circles") THEN m
    ELSE setLayoutProperty(m, "stores-circles", IF visible THEN "visible" ELSE "none")

\* src/Homemap.jsx 221-243
update_HomemapA(m, c) ==
    IF ~isStyleLoaded(m) THEN m
    ELSE LET ids == Range(IdsOf(filteredDcs_HomemapA(c.f)))
             m1 == IF getSource(m, "dcs") THEN setData(m, "dcs", c.gen, ids) ELSE m
             m2 == IF getSource(m1, "stores")
                   THEN setData(m1, "stores", c.gen, filteredStores_HomemapA(c.f)) ELSE m1
             m3 == setDivisionGlow_HomemapA(m2, c.f.division)
         IN IF c.f.dc # ALL
            THEN IF c.f.dc \in ids
                 THEN showStores_HomemapA(flyToDC_HomemapA(m3, c.f.dc), TRUE)
                 ELSE m3
            ELSE showStores_HomemapA(camera(m3, "fitBounds", "usa", ""), FALSE)

\* src/Homemap.jsx 572-594
highlightRegion_HomemapB(m, div, d) ==
    IF ~m.rdy THEN m
    ELSE LET m1 == setPaintProperty(m, "region-outline", [k |-> "line-opacity", v |-> "0.0"])
             m2 == setPaintProperty(m1, "region-extrude",
                                    [k |-> "fill-extrusion-opacity", v |-> "0.0"])
             m3 == IF div # All
                   THEN LET a == setFilter(m2, "region-outline", [k |-> "division", v |-> div])
                            b == setFilter(a, "region-extrude", [k |-> "division", v |-> div])
                            e == setPaintProperty(b, "region-outline",
                                                  [k |-> "line-opacity", v |-> "0.85"])
                        IN setPaintProperty(e, "region-extrude",
                                            [k |-> "fill-extrusion-opacity", v |-> "0.14"])
                   ELSE m2
         IN IF d # ALL
            THEN LET a == setFilter(m3, "region-outline", [k |-> "dc_id", v |-> d])
                     b == setFilter(a, "region-extrude", [k |-> "dc_id", v |-> d])
                     e == setPaintProperty(b, "region-outline",
                                           [k |-> "line-opacity", v |-> "0.95"])
                 IN setPaintProperty(e, "region-extrude",
                                     [k |-> "fill-extrusion-opacity", v |-> "0.18"])
            ELSE m3

\* src/Homemap.jsx 558-569
update_HomemapB(m, c) ==
    IF ~m.rdy THEN m
    ELSE LET m1 == IF getSource(m, "stores")
                   THEN setData(m, "stores", c.gen, filteredStores_HomemapB(c.f)) ELSE m
             m2 == highlightRegion_HomemapB(m1, c.f.division, c.f.dc)
         IN fitToCurrent_HomemapB(m2, filteredStores_HomemapB(c.f), c.f.division, c.f.dc)

\* src/unnamed/part_000 153-178: apply now, or wait for 'load'
update_Part000a(m, c) == IF isStyleLoaded(m) THEN apply_Part000a(m, c) ELSE m

\* the same effect without its cleanup: listeners of earlier renders stay registered
pending_withoutCleanup(m, c) == IF isStyleLoaded(m) THEN onceLoad ELSE onceLoad \cup {c}

\* src/unnamed/part_000 170-177: the listeners map.once('load', onLoad) has pending
\* after the effect of render c; the cleanup of the previous run took its own off
pending_Part000a(m, c) == IF isStyleLoaded(m) THEN {} ELSE {c}

\* src/unnamed/part_001 138-150
update_Part001(m, c) ==
    IF ~isStyleLoaded(m) THEN m
    ELSE IF getSource(m, "stores")
         THEN LET m1 == setData(m, "stores", c.gen, filteredGeo_Part001(c.f))
              IN IF filteredGeo_Part001(c.f) # {}
                 THEN camera(m1, "fitBounds", "stores", "") ELSE m1
         ELSE m

\* src/unnamed/part_003 201-207
update_Part003(m, c) ==
    IF ~isStyleLoaded(m) THEN m
    ELSE LET m1 == IF getSource(m, "stores")
                   THEN setData(m, "stores", c.gen, filteredStores_Part003(c.f)) ELSE m
         IN fitToCurrent_Part003(m1, c.f.division)

\* src/unnamed/part_003 193-198: the init effect depends on filteredStores, so a
\* commit runs its cleanup (map.remove()); the effect itself then returns at once
\* because mapRef.current is still set and leaves no cleanup for the next commit
effects_Part003(m, c) == update_Part003(IF m.s.removed THEN m ELSE remove(m), c)

\* src/unnamed/part_004 177-182
updateSource_Part004a(m, c) ==
    IF getSource(m, "stores")
    THEN setData(m, "stores", c.gen, filteredGeo_Part004a(c.f)) ELSE m

\* src/unnamed/part_004 185-234
camera_Part004a(m, c) ==
    IF ~isStyleLoaded(m) THEN m
    ELSE LET m1 == IF getLayer(m, "region-mask") THEN removeLayer(m, "region-mask") ELSE m
             m2 == IF getSource(m1, "region") THEN removeSource(m1, "region") ELSE m1
             m3 == IF c.f.division # All
                   THEN addLayer(addSource(m2, "region", -1, {}), "region-mask", "visible")
                   ELSE m2
         IN IF c.f.dc # ALL THEN cameraAt(m3, "fitBounds", "dc", c.f.dc, 45)
            ELSE IF c.f.division # All
                 THEN cameraAt(m3, "fitBounds", "division", c.f.division, 45)
            ELSE cameraAt(m3, "fitBounds", "usa", "", 45)

\* src/unnamed/part_004 177-234: both effects of a commit; p is the previous render
effects_Part004a(m, c, p) ==
    LET m1 == updateSource_Part004a(m, c)
    IN IF c.f.division # p.division \/ c.f.dc # p.dc THEN camera_Part004a(m1, c) ELSE m1

\* src/unnamed/part_004 453-460
update_Part004b(m, c) ==
    IF ~isStyleLoaded(m) THEN m
    ELSE IF ~getSource(m, "stores") THEN m
    ELSE fitToCurrent_Part004b(setData(m, "stores", c.gen, filteredStores_Part004b(c.f)),
                               filteredStores_Part004b(c.f), c.f.division, c.f.dc)

\* src/unnamed/part_004 462-466
highlight_Part004b(m, c) ==
    IF ~isStyleLoaded(m) THEN m
    ELSE updateRegionHighlight_Part004b(m, activeRegionFeature_Part004b(c.f))

\* src/unnamed/part_004 453-466: both effects of a commit
effects_Part004b(m, c, p) ==
    LET m1 == update_Part004b(m, c)
    IN IF c.f.division # p.division THEN highlight_Part004b(m1, c) ELSE m1

\* src/unnamed/part_005 235-249
regionLayers_Part005(m, vis, filterExp) ==
    LET m1 == IF getLayer(m, "region-line-glow")
              THEN setLayoutProperty(m, "region-line-glow", vis) ELSE m
        m2 == IF getLayer(m1, "region-line-bright")
              THEN setLayoutProperty(m1, "region-line-bright", vis) ELSE m1
        m3 == IF getLayer(m2, "region-line-glow")
              THEN setFilter(m2, "region-line-glow", filterExp) ELSE m2
    IN IF getLayer(m3, "region-line-bright")
       THEN setFilter(m3, "region-line-bright", filterExp) ELSE m3

\* src/unnamed/part_005 260-281, for a polygon feature
fitToFeature_Part005(m, kind, key) ==
    camera(cameraAt(m, "easeTo", "tilt", "", 30), "fitBounds", kind, key)

\* src/unnamed/part_005 283-319
update_Part005(m, c) ==
    LET m1 == updateStoresSource_Part005(m, c)
    IN IF ~isStyleLoaded(m1) THEN m1
       ELSE IF c.f.dc # ALL /\ c.f.dc \in RegionDcs
            THEN fitToFeature_Part005(
                     regionLayers_Part005(m1, "visible", [k |-> "dc_id", v |-> c.f.dc]),
                     "dc", c.f.dc)
       ELSE IF c.f.division # All /\ c.f.division \in RegionDivisions
            THEN fitToFeature_Part005(
                     regionLayers_Part005(m1, "visible", [k |-> "division", v |-> c.f.division]),
                     "division", c.f.division)
       ELSE LET m2 == IF getLayer(m1, "region-line-glow")
                      THEN setLayoutProperty(m1, "region-line-glow", "none") ELSE m1
                m3 == IF getLayer(m2, "region-line-bright")
                      THEN setLayoutProperty(m2, "region-line-bright", "none") ELSE m2
            IN cameraAt(m3, "easeTo", "usa", "", 0)

\* a show/hide step that flips the visibility of both layers instead of setting it
showStores_flipping(m, show) ==
    LET flip(mm, id) ==
            setLayoutProperty(mm, id, IF id \in mm.s.hidden THEN "visible" ELSE "none")
    IN flip(flip(m, "stores-circle"), "dcs-circle")

\* src/unnamed/part_006 614-617
showStores_Part006b(m, show) ==
    setLayoutProperty(
        setLayoutProperty(m, "stores-circle", IF show THEN "visible" ELSE "none"),
        "dcs-circle", IF show THEN "none" ELSE "visible")

\* src/unnamed/part_006 600-612, for a DC feature that carries its state
zoomToFeature_Part006b(m, id) ==
    LET m1 == camera(m, "fitBounds", "dc", id)
        m2 == setFilter(m1, "region-lines", [k |-> "name", v |-> id])
    IN setPaintProperty(m2, "region-lines", [k |-> "line-opacity", v |-> "0.28"])

\* src/unnamed/part_006 579-593
update_Part006b(m, c) ==
    IF ~isStyleLoaded(m) THEN m
    ELSE LET ids == Range(IdsOf(filteredDcs_Part006b(c.f)))
             m1 == IF getSource(m, "dcs") THEN setData(m, "dcs", c.gen, ids) ELSE m
             m2 == IF getSource(m1, "stores")
                   THEN setData(m1, "stores", c.gen, filteredStores_Part006b(c.f)) ELSE m1
         IN IF c.f.dc = ALL
            THEN showStores_Part006b(camera(m2, "fitBounds", "usa", ""), FALSE)
            ELSE IF c.f.dc \in ids
                 THEN showStores_Part006b(zoomToFeature_Part006b(m2, c.f.dc), TRUE)
                 ELSE m2

\* src/src/pages/HomeMap.jsx 174-186
update_PagesA(m, c) ==
    IF ~isStyleLoaded(m) THEN m
    ELSE LET m1 == IF getSource(m, "stores")
                   THEN setData(m, "stores", c.gen, filteredGeo_PagesA(c.f)) ELSE m
         IN IF filteredGeo_PagesA(c.f) # {}
            THEN camera(m1, "fitBounds", "stores", "") ELSE m1

\* the effects the mounted draft runs after the commit of render c; p is the
\* filter state of the render before it
effects(v, m, c, p) ==
    CASE v = "HomemapA" -> update_HomemapA(m, c)
      [] v = "HomemapB" -> update_HomemapB(m, c)
      [] v = "Part000a" -> update_Part000a(m, c)
      [] v = "Part001"  -> update_Part001(m, c)
      [] v = "Part003"  -> effects_Part003(m, c)
      [] v = "Part004a" -> effects_Part004a(m, c, p)
      [] v = "Part004b" -> effects_Part004b(m, c, p)
      [] v = "Part005"  -> update_Part005(m, c)
      [] v = "Part006b" -> update_Part006b(m, c)
      [] v = "PagesA"   -> update_PagesA(m, c)

\* a reset effect without its dependency list and without React's bail-out: it
\* schedules a render after every commit
resetDc_always(c, p) == ALL

\* src/src/pages/HomeMap.jsx 58-59: useEffect(() => setDc('ALL'), [division]);
\* the update it schedules: the next render's dc, or "" when nothing is scheduled
resetDc_PagesA(c, p) == IF c.f.division # p.division /\ c.f.dc # ALL THEN ALL ELSE ""

\* the handlers a draft registers for 'style.load'
onStyleLoad(v, m, c) ==
    CASE v = "Part003"  -> onStyleLoad_Part003(m, c)
      [] v = "Part004b" -> onStyleReady_Part004b(m, c)
      [] v = "PagesA"   -> onStyleLoaded_PagesA(m, c)
      [] OTHER          -> m

\* the handlers a draft registers for 'load'
onLoad(v, m, c) ==
    CASE v = "HomemapA" -> onLoad_HomemapA(m, c)
      [] v = "HomemapB" -> onLoad_HomemapB(m, c)
      [] v = "Part000a" -> onLoad_Part000a(m, c)
      [] v = "Part001"  -> onLoad_Part001(m, c)
      [] v = "Part004a" -> onLoad_Part004a(m, c)
      [] v = "Part004b" -> onStyleReady_Part004b(m, c)
      [] v = "Part005"  -> onLoad_Part005(m, c)
      [] v = "Part006b" -> onLoad_Part006b(m, c)
      [] v = "PagesA"   -> onStyleLoaded_PagesA(m, c)
      [] OTHER          -> m

\* the event on which a draft creates its sources and layers
ReadyOn(v) == IF v \in {"Part003", "Part004b", "PagesA"} THEN "style.load" ELSE "load"

-----------------------------------------------------------------------------
(* The component: mount, user events, commits and their effects.          *)

\* what a render derives from the filter state f
View(v, f) ==
    [stores |-> visibleStores(v, f),
     options |-> dcOptions(v, f),
     dcs |-> dcFeatures(v, f),
     colors |-> [i \in visibleStores(v, f) |-> circleColor(v, stores[i].health)]]

NoWork == [create |-> 0, wire |-> 0]

\* the ready-time work a handler run has done, read off the calls it issued
Worked(w, log) ==
    [create |-> w.create + (IF \E i \in DOMAIN log :
                                   log[i].op = "addSource" /\ log[i].id = "stores" /\ log[i].ok
                            THEN 1 ELSE 0),
     wire   |-> w.wire + (IF \E i \in DOMAIN log : log[i].op = "on" THEN 1 ELSE 0)]

\* the render the init effect ran in: every handler it registers closes over it
MountClosure == Closure(0, MountFilter)

\* the reporting periods of the Daily | Weekly buttons; useState('DAILY')
Periods == {"DAILY", "WEEKLY"}
MountPeriod == "DAILY"

\* the drafts with the state period (pages/HomeMap.jsx 21, part_000 24, part_001 23)
HasPeriod(v) == v \in {"Part000a", "Part001", "PagesA"}

\* no store was clicked yet
NoNav == [id |-> 0, period |-> "", n |-> 0]

\* Number(x).toFixed(0) for x = num / (1000 * den), a health in thousandths or
\* a roll-up sum / n: the nearest integer, the larger one of two equally near
toFixed0(num, den) == (2 * num + 1000 * den) \div (2000 * den)

\* part_006 515-523 and 546-554: the class of the health line of a tooltip,
\* chosen by the text toFixed(0) gave
tooltipClass_Part006b(num, den) ==
    LET t == toFixed0(num, den)
    IN IF t >= 80 THEN "green" ELSE IF t >= 60 THEN "amber" ELSE "red"

\* src/Homemap.jsx 186: the dot of the store tooltip, chosen by p.health
tooltipClass_HomemapA(h) ==
    IF h >= 80000 THEN "green" ELSE IF h >= 60000 THEN "amber" ELSE "red"

\* part_006 474: "circle-color": healthColorExpr(["get", "rollup_health"]) for
\* the roll-up r.sum / r.n
dcColor_Part006b(r) ==
    IF r.sum >= 80000 * r.n THEN HEALTH.GOOD
    ELSE IF r.sum >= 60000 * r.n THEN HEALTH.WATCH ELSE HEALTH.RISK

\* a pending callback is named after the method of the map it will call:
\* "resize" is () => map.resize(), "glow" is
\* () => map.setPaintProperty("region-lines", "line-opacity", 0.08)

\* src/src/pages/HomeMap.jsx 82: requestAnimationFrame(() => map.resize()) in
\* the init effect
MountTimers(v) == IF v = "PagesA" THEN {"resize"} ELSE {}

\* part_003 188 (setTimeout(() => map.resize(), 0) in the finally of the
\* 'style.load' handler) and part_004 444 (setTimeout(() => map.resize(), 80)
\* at the end of onStyleReady)
HandlerTimers(v) == IF v \in {"Part003", "Part004b"} THEN {"resize"} ELSE {}

\* part_006 605-607: zoomToFeature, after it has raised the opacity of
\* "region-lines", schedules the callback that lowers it again
LogTimers(log) ==
    IF \E i \in DOMAIN log : /\ log[i].op = "setPaintProperty"
                             /\ log[i].id = "region-lines"
                             /\ log[i].arg = [k |-> "line-opacity", v |-> "0.28"]
    THEN {"glow"} ELSE {}

\* the component is mounted with the store features st and the DC features ds.
\* Without an access token new mapboxgl.Map({style: 'mapbox://...'}) throws, as
\* the URL of the style cannot be formed: the init effect raises before it sets
\* mapRef.current, and React, which finds no error boundary, takes the view down
MountWith(st, ds, token) ==
    /\ impl \in Drafts
    /\ stores = st
    /\ dcs = ds
    /\ division = All
    /\ dc = ALL
    /\ onlyAssigned = FALSE
    /\ gen = 0
    /\ phase = IF token THEN "idle" ELSE "failed"
    /\ view = View(impl, MountFilter)
    /\ prev = MountFilter
    /\ map = IF token THEN NewMap ELSE [NewMap EXCEPT !.removed = TRUE]
    /\ onceLoad = IF impl = "Part000a" /\ token THEN {MountClosure} ELSE {}
    /\ ready = FALSE
    /\ readyGen = -1
    /\ work = NoWork
    /\ calls = <<>>
    /\ last = [op |-> "mount", arg |-> IF token THEN "" ELSE "no token", valid |-> token]
    /\ period = MountPeriod
    /\ nav = NoNav
    /\ timers = IF token THEN MountTimers(impl) ELSE {}

\* the mount with the access token of the environment in place
Mount(st, ds) == MountWith(st, ds, TRUE)

Init == \E sc \in Scenarios : Mount(sc.stores, sc.dcs)

\* the same mount over every data set of NumStores stores
InitDerive == \E st \in StoreSets, sc \in Scenarios : Mount(st, sc.dcs)

\* setState calls of one handler, batched into one render; React bails out when
\* no state value changed
Commit(d, c, a) ==
    /\ division' = d
    /\ dc' = c
    /\ onlyAssigned' = a
    /\ IF Filter(d, c, a) = Current
       THEN UNCHANGED <<gen, phase, view, prev>>
       ELSE /\ gen' = gen + 1
            /\ phase' = "effects"
            /\ view' = View(impl, Filter(d, c, a))
            /\ prev' = Current

\* src/Homemap.jsx 246-259: the camera part of onDivisionClick
onDivisionClick_HomemapA(m, div) ==
    IF div \in RegionDivisions THEN cameraAt(m, "fitBounds", "division", div, 35)
    ELSE camera(m, "fitBounds", "usa", "")

\* the drafts whose division pill also calls setDc('ALL')
\* (src/Homemap.jsx 248, part_003 222-224, part_004 257, part_006 640)
ResetsDc == {"HomemapA", "Part003", "Part004a", "Part006b"}

\* click on the division pill d
ClickDivision(d) ==
    /\ phase = "idle"
    /\ gen < MaxChanges
    /\ Commit(d, IF impl \in ResetsDc THEN ALL ELSE dc, onlyAssigned)
    /\ LET m == IF impl = "HomemapA" /\ ~map.removed
                THEN onDivisionClick_HomemapA(Machine(map, ready), d)
                ELSE Machine(map, ready)
       IN /\ map' = m.s
          /\ calls' = m.log
    /\ last' = [op |-> "setDivision", arg |-> d, valid |-> TRUE]
    /\ UNCHANGED <<impl, stores, dcs, timers, period, nav, onceLoad, ready, readyGen, work>>

\* change of the DC <select> to another of its options
SelectDc(id) ==
    /\ phase = "idle"
    /\ gen < MaxChanges
    /\ id \in Range(view.options)
    /\ id # dc
    /\ Commit(division, id, onlyAssigned)
    /\ calls' = <<>>
    /\ last' = [op |-> "setDc", arg |-> id, valid |-> TRUE]
    /\ UNCHANGED <<impl, stores, dcs, timers, period, nav, map, onceLoad, ready, readyGen, work>>

\* change of the checkbox "Show only my assigned stores"
ToggleAssigned ==
    /\ phase = "idle"
    /\ gen < MaxChanges
    /\ Commit(division, dc, ~onlyAssigned)
    /\ calls' = <<>>
    /\ last' = [op |-> "setOnlyAssigned", arg |-> "", valid |-> TRUE]
    /\ UNCHANGED <<impl, stores, dcs, timers, period, nav, map, onceLoad, ready, readyGen, work>>

\* the layer of DC markers of the drafts that draw one
DcLayer(v) == IF v = "HomemapA" THEN "dc-circles" ELSE "dcs-circle"

\* src/Homemap.jsx 199-205 and src/unnamed/part_006 534-541: the calls the click
\* handler issues besides setDcId(id)
onDcClick(v, m, id) ==
    IF v = "HomemapA" THEN showStores_HomemapA(flyToDC_HomemapA(m, id), TRUE)
    ELSE showStores_Part006b(zoomToFeature_Part006b(m, id), TRUE)

\* click on the marker of DC id, which the loaded source 'dcs' draws
ClickDc(id) ==
    /\ phase = "idle"
    /\ gen < MaxChanges
    /\ HasDcLayer(impl)
    /\ ready
    /\ ~map.removed
    /\ map.styleLoaded
    /\ rendered(map, DcLayer(impl))
    /\ id \in map.dcsData.feats
    /\ Commit(division, id, onlyAssigned)
    /\ LET m == onDcClick(impl, Machine(map, ready), id)
       IN /\ map' = m.s
          /\ calls' = m.log
          /\ timers' = timers \cup LogTimers(m.log)
    /\ last' = [op |-> "clickDc", arg |-> id, valid |-> id \in Range(view.options)]
    /\ UNCHANGED <<impl, stores, dcs, period, nav, onceLoad, ready, readyGen, work>>

\* the effects of the pending commit, in declaration order; the reset effect of
\* pages/HomeMap.jsx may schedule a further render, which is committed at once
RunEffects ==
    /\ phase = "effects"
    /\ LET c == Closure(gen, Current)
           m == effects(impl, Machine(map, ready), c, prev)
           reset == IF impl = "PagesA" THEN resetDc_PagesA(c, prev) ELSE ""
       IN /\ map' = m.s
          /\ calls' = m.log
          /\ timers' = timers \cup LogTimers(m.log)
          /\ onceLoad' = IF impl = "Part000a"
                         THEN pending_Part000a(Machine(map, ready), c) ELSE onceLoad
          /\ prev' = Current
          /\ IF reset # ""
             THEN /\ dc' = reset
                  /\ gen' = gen + 1
                  /\ view' = View(impl, Filter(division, reset, onlyAssigned))
                  /\ phase' = "effects"
             ELSE /\ phase' = "idle"
                  /\ UNCHANGED <<dc, gen, view>>
    /\ UNCHANGED <<impl, stores, dcs, period, nav, division, onlyAssigned, ready, readyGen, work, last>>

-----------------------------------------------------------------------------
(* The engine's events.  Each is a task of its own: the effects of a commit *)
(* are flushed within the task of the user event that caused the commit,   *)
(* so an engine event finds no commit pending.                             *)

\* the listeners of map.once('load', ...) fire in the order they were registered
RECURSIVE FireOnce(_, _)
FireOnce(m, cs) ==
    IF cs = {} THEN m
    ELSE LET c == CHOOSE x \in cs : \A y \in cs : x.gen <= y.gen
         IN FireOnce(apply_Part000a(m, c), cs \ {c})

\* the same bookkeeping with a flag that a second readiness event takes back
Handled_dropping(m) ==
    /\ map' = m.s
    /\ calls' = m.log
    /\ ready' = (m.rdy /\ ~ready)
    /\ readyGen' = IF ~ready /\ m.rdy THEN gen ELSE readyGen
    /\ work' = Worked(work, m.log)

\* bookkeeping common to both events: m is the machine after the handlers ran
Handled(m) ==
    /\ map' = m.s
    /\ calls' = m.log
    /\ ready' = m.rdy
    /\ readyGen' = IF ~ready /\ m.rdy THEN gen ELSE readyGen
    /\ work' = Worked(work, m.log)

\* 'style.load': the style has arrived; its sources are still loading
StyleLoad ==
    /\ phase = "idle"
    /\ map.engine = "loading"
    /\ ~map.removed
    /\ Handled(onStyleLoad(impl,
                   Machine([map EXCEPT !.engine = "styled", !.styleLoaded = FALSE],
                           ready \/ ReadyOn(impl) = "style.load"),
                   MountClosure))
    /\ timers' = timers \cup (IF ReadyOn(impl) = "style.load" THEN HandlerTimers(impl) ELSE {})
    /\ UNCHANGED <<impl, stores, dcs, period, nav, division, dc, onlyAssigned, gen, phase, view, prev,
                   onceLoad, last>>

\* the sources have loaded: map.isStyleLoaded() is true from now on
SourcesIdle ==
    /\ phase = "idle"
    /\ map.engine # "loading"
    /\ ~map.removed
    /\ ~map.styleLoaded
    /\ map' = [map EXCEPT !.styleLoaded = TRUE]
    /\ calls' = <<>>
    /\ UNCHANGED <<impl, stores, dcs, timers, period, nav, division, dc, onlyAssigned, gen, phase, view, prev,
                   onceLoad, ready, readyGen, work, last>>

\* 'load': fired once, when the style and its sources are loaded; the listeners
\* of map.on run before those of map.once
Load ==
    /\ phase = "idle"
    /\ map.engine = "styled"
    /\ ~map.removed
    /\ map.styleLoaded
    /\ Handled(FireOnce(onLoad(impl,
                               Machine([map EXCEPT !.engine = "loaded"],
                                       ready \/ ReadyOn(impl) = "load"),
                               MountClosure),
                        onceLoad))
    /\ onceLoad' = {}
    /\ UNCHANGED <<impl, stores, dcs, timers, period, nav, division, dc, onlyAssigned, gen, phase, view, prev,
                   last>>

\* the layer that draws the stores, for the drafts with a level of detail
StoreLayer(v) == IF v = "HomemapA" THEN "stores-circles" ELSE "stores-circle"

\* src/Homemap.jsx 207-211 ('zoomend') and src/unnamed/part_006 568-572 ('moveend')
onZoomEnd(v, m) ==
    IF v = "HomemapA" THEN showStores_HomemapA(m, m.s.zoom >= Z_STORES)
    ELSE showStores_Part006b(m, m.s.zoom >= ZOOM_THRESHOLD)

\* a listener of the zoom that gives the selected DC up
ZoomEnd_resetting(z) ==
    /\ phase = "idle"
    /\ HasDcLayer(impl)
    /\ map.engine = "loaded"
    /\ ~map.removed
    /\ LET m == onZoomEnd(impl, Machine([map EXCEPT !.zoom = z], ready))
       IN /\ map' = m.s
          /\ calls' = m.log
    /\ dc' = ALL
    /\ last' = [op |-> "zoomend", arg |-> "", valid |-> TRUE]
    /\ UNCHANGED <<impl, stores, dcs, timers, period, nav, division, onlyAssigned, gen, phase, view,
                   prev, onceLoad, ready, readyGen, work>>

\* a zoom gesture or a camera animation ends at zoom z; the listener the load
\* handler registered runs
ZoomEnd(z) ==
    /\ phase = "idle"
    /\ HasDcLayer(impl)
    /\ map.engine = "loaded"
    /\ ~map.removed
    /\ LET m == onZoomEnd(impl, Machine([map EXCEPT !.zoom = z], ready))
       IN /\ map' = m.s
          /\ calls' = m.log
    /\ last' = [op |-> "zoomend", arg |-> "", valid |-> TRUE]
    /\ UNCHANGED <<impl, stores, dcs, timers, period, nav, division, dc, onlyAssigned, gen, phase, view, prev,
                   onceLoad, ready, readyGen, work>>

\* click on the Daily or the Weekly button.  period is a dependency of the init
\* effect: React runs the cleanup of the effect, map.remove(), and the effect
\* again, which returns at `if (mapRef.current) return` and leaves no cleanup
SetPeriod(p) ==
    /\ phase = "idle"
    /\ HasPeriod(impl)
    /\ p # period
    /\ period' = p
    /\ LET m == IF map.removed THEN Machine(map, ready) ELSE remove(Machine(map, ready))
       IN /\ map' = m.s
          /\ calls' = m.log
    /\ last' = [op |-> "setPeriod", arg |-> p, valid |-> TRUE]
    /\ UNCHANGED <<impl, stores, dcs, timers, nav, division, dc, onlyAssigned, gen, phase, view,
                   prev, onceLoad, ready, readyGen, work>>

\* the drafts whose readiness handler registers a click listener on the stores
HasStoreClick(v) == v # "HomemapA"

\* the layer the click listener is registered on
StoreClickLayer(v) == IF v = "Part006b" THEN "stores-circle" ELSE "stores-core"

\* the listener map.on('click', 'stores-core', ...): the target it navigates to.
\* The listener is created by the init effect of the mount render and reads the
\* period of that render
onStoreClick(v, id) == [id |-> id, period |-> IF HasPeriod(v) THEN MountPeriod ELSE ""]

\* a click runs every listener registered for it: n navigate calls to the target
emitted(target, n) == [id |-> target.id, period |-> target.period, n |-> n]

\* click on the drawn feature of store i
ClickStore(i) ==
    /\ phase = "idle"
    /\ HasStoreClick(impl)
    /\ work.wire > 0
    /\ ~map.removed
    /\ map.styleLoaded
    /\ rendered(map, StoreClickLayer(impl))
    /\ i \in map.storesData.feats
    /\ nav' = emitted(onStoreClick(impl, i), work.wire)
    /\ calls' = <<>>
    /\ last' = [op |-> "clickStore", arg |-> "", valid |-> TRUE]
    /\ UNCHANGED <<impl, stores, dcs, timers, period, division, dc, onlyAssigned, gen, phase, view,
                   prev, map, onceLoad, ready, readyGen, work>>

\* a listener that gives the map up on an error
onError_removing(v, m) == remove(m)

\* the listener of map.on('error', ...): it writes the error to the console
\* (part_003 89-91) or to the debug line of the panel (part_006 83-85); a map
\* without such a listener writes the error to the console itself
onError(v, m) == m

\* the engine reports an internal error: a tile, a sprite or a request failed
EngineError ==
    /\ phase = "idle"
    /\ ~map.removed
    /\ LET m == onError(impl, Machine(map, ready))
       IN /\ map' = m.s
          /\ calls' = m.log
    /\ last' = [op |-> "error", arg |-> "", valid |-> TRUE]
    /\ UNCHANGED <<impl, stores, dcs, timers, period, nav, division, dc, onlyAssigned, gen, phase,
                   view, prev, onceLoad, ready, readyGen, work>>

\* map.resize(): the request to fit the canvas to its container
resize(m) == Logged(m, "resize", "map", -1, NoArg, ~m.s.removed)

\* what causes the container to change its dimensions
ResizeCauses == {"window", "layout"}

\* the drafts whose init effect adds a listener of the window's 'resize'; the
\* effect depends on the filtered data, its cleanup takes the listener off and
\* its next run returns at `if (mapRef.current) return`
ListensToWindow(v, g) == v \in {"Part003", "Part004a"} /\ g = 0

\* the handlers of a change of the container's dimensions: the map follows the
\* window by itself (trackResize is left at its default), part_003 and part_004
\* listen to the window, part_005 observes the container
onResize(v, m, g, cause) ==
    LET m1 == IF cause = "window" /\ ~m.s.removed THEN resize(m) ELSE m
        m2 == IF cause = "window" /\ ListensToWindow(v, g) THEN resize(m1) ELSE m1
    IN IF v = "Part005" THEN resize(m2) ELSE m2

\* the container of the map changes its dimensions
Resize(cause) ==
    /\ phase = "idle"
    /\ LET m == onResize(impl, Machine(map, ready), gen, cause)
       IN /\ map' = m.s
          /\ calls' = m.log
    /\ last' = [op |-> "resize", arg |-> cause, valid |-> TRUE]
    /\ UNCHANGED <<impl, stores, dcs, timers, period, nav, division, dc, onlyAssigned, gen, phase,
                   view, prev, onceLoad, ready, readyGen, work>>

\* the layers with a 'mousemove' listener that fills the tooltip
HoverLayers(v) ==
    CASE v = "HomemapA" -> {"stores-circles"}
      [] v = "Part006b" -> {"dcs-circle", "stores-circle"}
      [] OTHER -> {"stores-core"}

\* the pointer moves over a drawn feature of the layer id: the tooltip is filled
\* and shown
Hover(id) ==
    /\ phase = "idle"
    /\ work.wire > 0
    /\ ~map.removed
    /\ id \in HoverLayers(impl)
    /\ rendered(map, id)
    /\ calls' = <<>>
    /\ last' = [op |-> "hover", arg |-> id, valid |-> TRUE]
    /\ UNCHANGED <<impl, stores, dcs, timers, period, nav, division, dc, onlyAssigned, gen, phase,
                   view, prev, map, onceLoad, ready, readyGen, work>>

Next ==
    \/ \E d \in ClickedDivisions : ClickDivision(d)
    \/ \E id \in DcIds \cup {ALL} : SelectDc(id)
    \/ ToggleAssigned
    \/ \E id \in DcIds : ClickDc(id)
    \/ RunEffects
    \/ StyleLoad
    \/ SourcesIdle
    \/ Load
    \/ \E z \in ZoomLevels : ZoomEnd(z)

Spec == Init /\ [][Next]_vars

\* the effects of a commit run: React flushes them before it handles another event
FairSpec == Spec /\ WF_vars(RunEffects)

\* the view is unmounted: React runs the cleanup of the init effect, which
\* removes the map in every draft but the first of part_004, whose cleanup
\* (173) only takes the window listener off; no pending callback is cancelled
Unmount ==
    /\ phase = "idle"
    /\ phase' = "unmounted"
    /\ LET m == IF map.removed \/ impl = "Part004a" THEN Machine(map, ready)
                ELSE remove(Machine(map, ready))
       IN /\ map' = m.s
          /\ calls' = m.log
    /\ last' = [op |-> "unmount", arg |-> "", valid |-> TRUE]
    /\ UNCHANGED <<impl, stores, dcs, timers, period, nav, division, dc, onlyAssigned, gen,
                   view, prev, onceLoad, ready, readyGen, work>>

\* the method of the map a pending callback calls
callback(m, t) ==
    IF t = "resize" THEN resize(m)
    ELSE setPaintProperty(m, "region-lines", [k |-> "line-opacity", v |-> "0.08"])

\* a timer or an animation frame fires and its callback runs
TimerFires(t) ==
    /\ phase \in {"idle", "unmounted"}
    /\ t \in timers
    /\ timers' = timers \ {t}
    /\ LET m == callback(Machine(map, ready), t)
       IN /\ map' = m.s
          /\ calls' = m.log
    /\ last' = [op |-> "timer", arg |-> t, valid |-> TRUE]
    /\ UNCHANGED <<impl, stores, dcs, period, nav, division, dc, onlyAssigned, gen, phase,
                   view, prev, onceLoad, ready, readyGen, work>>

\* the view with its pending callbacks and its unmount
NextLife ==
    \/ Next
    \/ Unmount
    \/ \E t \in {"resize", "glow"} : TimerFires(t)

SpecLife == Init /\ [][NextLife]_vars

\* the view with the reporting period and the clicks on stores as well
NextNav ==
    \/ Next
    \/ \E p \in Periods : SetPeriod(p)
    \/ \E i \in StoreIds : ClickStore(i)

SpecNav == Init /\ [][NextNav]_vars

\* the view with the events that carry no user choice: errors of the engine,
\* changes of the container's dimensions and the pointer over a feature
NextEvents ==
    \/ Next
    \/ EngineError
    \/ \E cause \in ResizeCauses : Resize(cause)
    \/ \E id \in {"stores-circles", "stores-circle", "stores-core", "dcs-circle"} : Hover(id)

SpecEvents == Init /\ [][NextEvents]_vars

\* the view in an environment that may lack REACT_APP_MAPBOX_TOKEN
InitToken == \E sc \in Scenarios, token \in BOOLEAN : MountWith(sc.stores, sc.dcs, token)

SpecToken == InitToken /\ [][Next]_vars

\* the filter panel alone, on a map whose style never arrives
NextDerive ==
    \/ \E d \in ClickedDivisions : ClickDivision(d)
    \/ \E id \in DcIds \cup {ALL} : SelectDc(id)
    \/ ToggleAssigned
    \/ RunEffects

SpecDerive == InitDerive /\ [][NextDerive]_vars

\* the data sets of the scenarios with every choice of health values
InitHealth ==
    \E sc \in Scenarios :
        \E hs \in [DOMAIN sc.stores -> HealthValues] :
            Mount(WithHealth(sc.stores, hs), sc.dcs)

\* the filter panel over stores of every health
SpecHealth == InitHealth /\ [][NextDerive]_vars

-----------------------------------------------------------------------------
(* Properties of the derived data (SpecDerive)                             *)

\* the stores that satisfy the three predicates of the filter state
Matching ==
    {i \in StoreIds :
        /\ division = All \/ stores[i].division = division
        /\ dc = ALL \/ stores[i].dc_id = dc
        /\ ~onlyAssigned \/ stores[i].assigned = TRUE}

C2_DcOptionsOfDivision == view.options = <<ALL>> \o SortIds(DcIdsOfDivision(division))

\* C3: the option list does not depend on the DC selection: it is the list the
\* same division (and assigned-only flag) would give with dc = ALL.
C3_DcOptionsIgnoreDc == view.options = dcOptions(impl, Filter(division, ALL, onlyAssigned))

-----------------------------------------------------------------------------
(* Properties of the filter state (Spec)                                   *)

\* the dc values that are valid for division d: "ALL" and the DCs of its stores
ValidDcs(d) == {ALL} \cup DcIdsOfDivision(d)

\* the last user event was a click on a division pill and its commits are done
DivisionApplied == last.op = "setDivision" /\ phase = "idle"

\* C4: once a division change has been applied, dc is not a DC that is invalid
\* for the new division: a selection the change made invalid has become ALL.
C4_DivisionChangeLeavesValidDc == DivisionApplied => dc \in ValidDcs(division)

\* C5: every setDivision(d) leaves dc = ALL, whatever d and the prior dc were,
\* also when d is the division already selected.
C5_SetDivisionResetsDc == DivisionApplied => dc = ALL

\* C6: a request to set dc to an id that the option list does not hold (from the
\* selector or from a click on a DC marker) results in dc = ALL, never in the
\* invalid id being stored.
C6_InvalidDcBecomesAll ==
    (last.op \in {"setDc", "clickDc"} /\ ~last.valid /\ phase = "idle") => dc = ALL

-----------------------------------------------------------------------------
(* Properties of the synchronisation with the map (Spec)                   *)

\* a call that hands filter-derived data to a source of the map
IsPush(e) == e.op \in {"addSource", "setData"} /\ e.id \in {"stores", "dcs"} /\ e.ok

\* C7: while ready is false no setData, setFilter, setPaintProperty,
\* setLayoutProperty, addLayer or removeLayer is issued to the map, and no call
\* made before readiness fails.
C7_NoMutationBeforeReady ==
    \A i \in DOMAIN calls :
        ~calls[i].rdy => (calls[i].op \notin Mutations /\ calls[i].ok)

\* the map has become ready after at least one filter change, no change has been
\* made since, and no commit is pending
ReadyAfterChange == ready /\ readyGen >= 1 /\ gen = readyGen /\ phase = "idle"

\* C8: when the filter state was changed before the map became ready, the data
\* the sources hold from the readiness transition on is that of the filter state
\* current at the transition, not that of the mount.
C8_ReadinessPushesCurrent ==
    ReadyAfterChange =>
        /\ "stores" \in map.sources => map.storesData.feats = view.stores
        /\ "dcs" \in map.sources => map.dcsData.feats = visibleDcs(impl, Current)

\* C9: the map is never given data derived from an intermediate filter state:
\* every push carries the data of the mount render or of a render that is not
\* older than the readiness transition.
C9_NoIntermediatePush ==
    \A i \in DOMAIN calls :
        IsPush(calls[i]) => (calls[i].gen = 0 \/ (ready /\ calls[i].gen >= readyGen))

\* two changes were made before readiness, and the readiness event has just
\* created the sources and pushed the data of the final filter state
C9_Witness ==
    /\ ready /\ readyGen >= 2
    /\ \E i \in DOMAIN calls : calls[i].op = "addSource" /\ calls[i].id = "stores"
    /\ \E i \in DOMAIN calls : calls[i].op = "setData" /\ calls[i].gen = readyGen

\* C10: the ready-time work (sources and layers with their initial data, the
\* interaction listeners) is done exactly once, also when both 'style.load' and
\* 'load' fire, and never again.
C10_ReadyWorkOnce ==
    /\ work.create <= 1
    /\ work.wire <= 1
    /\ map.engine = "loaded" => (work.create = 1 /\ work.wire = 1)

-----------------------------------------------------------------------------
(* Properties of the ready-time work and of the level of detail (Spec)     *)

\* the handler in which the mounted draft creates its sources and layers
ensureSourcesAndLayers(v, m, c) ==
    IF ReadyOn(v) = "style.load" THEN onStyleLoad(v, m, c) ELSE onLoad(v, m, c)

\* C11: the creation step is idempotent: run again on a map on which it has run,
\* it leaves the same source ids and layer ids and none of its addSource /
\* addLayer calls is refused.
C11_EnsureIdempotent ==
    (ready /\ ~map.removed /\ work.create = 1) =>
        LET m == ensureSourcesAndLayers(impl, Machine(map, TRUE), MountClosure)
        IN /\ m.s.sources = map.sources
           /\ m.s.layers = map.layers
           /\ \A i \in DOMAIN m.log :
                  m.log[i].op \in {"addSource", "addLayer"} => m.log[i].ok

\* the zoom from which the zoom listener of draft v shows the stores
Threshold(v) == IF v = "HomemapA" THEN Z_STORES ELSE ZOOM_THRESHOLD

\* the visibility of layer id in the map state s is not 'none'
shown(s, id) == id \in s.layers \ s.hidden

\* the last event was a zoom end or a change of the filter state, it reached a
\* map that is ready, and the listener or the update effect issued its calls
LodHandled ==
    /\ HasDcLayer(impl)
    /\ ready
    /\ ~map.removed
    /\ phase = "idle"
    /\ StoreLayer(impl) \in map.layers
    /\ last.op \in {"zoomend", "setDivision", "setDc", "setOnlyAssigned", "clickDc"}
    /\ calls # <<>>

\* C12: on a ready map, after every handled zoom end and every handled change of
\* the filter state, the store layer is visible exactly if the zoom is at or
\* above the store threshold or a DC is selected, and the DC layer is visible
\* exactly if the store layer is not.
C12_LodDecision ==
    LodHandled =>
        /\ shown(map, StoreLayer(impl)) <=> (map.zoom >= Threshold(impl) \/ dc # ALL)
        /\ shown(map, DcLayer(impl)) <=> ~shown(map, StoreLayer(impl))

\* C13: while a DC is selected, a zoom that ends below the store threshold does
\* not hide the store layer.
C13_SelectionPinsStores ==
    [][(/\ dc # ALL
        /\ shown(map, StoreLayer(impl))
        /\ \E z \in ZoomLevels : z < Threshold(impl) /\ ZoomEnd(z))
       => shown(map', StoreLayer(impl))]_vars

-----------------------------------------------------------------------------
(* Properties of the camera (Spec)                                         *)

IsCamera(e) == e.id = "camera"

\* the step ends a change of the filter state that reached a ready map: the
\* effects of the commit ran on it and issued calls
ChangeEnds ==
    /\ phase = "effects"
    /\ phase' = "idle"
    /\ ready
    /\ ~map'.removed
    /\ calls' # <<>>

\* the camera commands of the change that this step ends: those of the event
\* handler or of the preceding effects, then those of the effects of this step
ChangeCameras == SelectSeq(calls \o calls', IsCamera)

\* the last command of cs frames the target (kind, key)
FramedBy(cs, kind, key) ==
    /\ cs # <<>>
    /\ cs[Len(cs)].arg.k = kind
    /\ cs[Len(cs)].arg.v = key

\* the drafts that look a DC up among the polygons of regionsGeo
DcFromRegions == {"HomemapB", "Part005"}

\* the drafts that load the polygons of the divisions
HasRegions == {"HomemapA", "HomemapB", "Part003", "Part004a", "Part004b", "Part005",
               "Part006b"}

\* rule 1: a DC is selected and there is a record of it
Rule1(v, d) ==
    /\ d # ALL
    /\ \E i \in DOMAIN dcs : dcs[i].dc_id = d
    /\ v \in DcFromRegions => d \in RegionDcs

\* rule 2: rule 1 does not match, a division is selected and has a polygon
Rule2(v, div, d) ==
    /\ ~Rule1(v, d)
    /\ div # All
    /\ v \in HasRegions
    /\ div \in RegionDivisions

\* C15: the DC wins: after a change that leaves a DC selected of which there is
\* a record, the camera frames that DC, whatever the division and the
\* only-assigned flag are.
C15_DcWins ==
    [][(ChangeEnds /\ Rule1(impl, dc')) => FramedBy(ChangeCameras, "dc", dc')]_vars

\* C16: when rule 1 does not match, a division is selected and its polygon
\* exists, the camera target in force after the change is that polygon, not the
\* national region and not the bounds of the stores.
C16_DivisionSecond ==
    [][(ChangeEnds /\ Rule2(impl, division', dc'))
       => FramedBy(ChangeCameras, "division", division')]_vars

\* C17: every command that frames the national region does so with pitch 0.
C17_NationalIsFlat ==
    \A i \in DOMAIN calls :
        (IsCamera(calls[i]) /\ calls[i].arg.k = "usa") => calls[i].arg.pitch = 0

\* C18: no command of a change in which rule 1 or rule 2 matched fits the
\* camera to the visible stores.
C18_NoStoreFitUnderRules ==
    [][(ChangeEnds /\ (Rule1(impl, dc') \/ Rule2(impl, division', dc')))
       => \A i \in DOMAIN ChangeCameras : ChangeCameras[i].arg.k # "stores"]_vars

\* C19: a change of the filter state on a ready map causes exactly one camera
\* command, whether it came from a pill, the DC selector or a DC marker.
C19_OneCommandPerChange ==
    [][ChangeEnds => Len(ChangeCameras) = 1]_vars

\* the last change of the filter state was made on a map that was ready and
\* its effects have run
SettledOnReady ==
    /\ phase = "idle"
    /\ ready
    /\ ~map.removed
    /\ readyGen >= 0
    /\ gen > readyGen

\* the camera was last sent to the region the precedence rule gives for the
\* current filter state
Converged ==
    IF Rule1(impl, dc) THEN map.target = [k |-> "dc", v |-> dc]
    ELSE IF Rule2(impl, division, dc) THEN map.target = [k |-> "division", v |-> division]
    ELSE map.target.k \in {"usa", "stores"}

\* C20: once the changes of the filter state stop, the last camera command
\* issued is the one for the final filter state: from some point on, whenever
\* the last change was made on a ready map and has been processed, the camera
\* is on the target of the precedence rule for the current filter state.
C20_CameraConverges == <>[](SettledOnReady => Converged)

-----------------------------------------------------------------------------
(* Properties of the colour scale and of the DC features (SpecHealth)      *)

\* the band a colour of one of the two scales stands for
Band(color) ==
    CASE color \in {C_GREEN, HEALTH.GOOD} -> "healthy"
      [] color \in {C_AMBER, HEALTH.WATCH} -> "watch"
      [] OTHER -> "at-risk"

\* C21: every health value h >= 80 is drawn in the healthy band, every
\* 60 <= h < 80 in the watch band and every h < 60 in the at-risk band: 80 is
\* healthy, 79.999 and 60 are watch and 59.999 is at-risk.
C21_HealthBands ==
    \A i \in DOMAIN view.colors :
        LET h == stores[i].health
        IN Band(view.colors[i]) = IF h >= 80000 THEN "healthy"
                                  ELSE IF h >= 60000 THEN "watch" ELSE "at-risk"

\* after a change of the filter, a store at the upper threshold, one just below
\* it and one just below the lower threshold are drawn, each in its band
C21_Witness ==
    /\ gen > 0
    /\ \E i, j, k \in DOMAIN view.colors :
           /\ stores[i].health = 80000 /\ Band(view.colors[i]) = "healthy"
           /\ stores[j].health = 79999 /\ Band(view.colors[j]) = "watch"
           /\ stores[k].health = 59999 /\ Band(view.colors[k]) = "at-risk"

\* the stores of DC d in the whole data set
StoresOfDc(d) == {i \in StoreIds : stores[i].dc_id = d}

\* the draft that computes the roll-up; the first draft of src/Homemap.jsx draws
\* the rollup_health that the features of dcs.geo.json bring along
ComputesRollup(v) == v = "Part006b"

\* C22: the rollup_health of every DC feature that is derived for the map is the
\* mean of health over all stores of the data set with that dc_id, in every
\* filter state (sum / n = total / count, compared without dividing).
C22_RollupIsMean ==
    ComputesRollup(impl) =>
        \A k \in DOMAIN view.dcs :
            LET x == view.dcs[k]
            IN StoresOfDc(x.dc_id) # {} =>
                   x.rollup_health.sum * Cardinality(StoresOfDc(x.dc_id))
                       = SumHealth(StoresOfDc(x.dc_id)) * x.rollup_health.n

\* a filter state that hides a store of a DC whose feature is derived with the
\* mean over both of its stores
C22_Witness ==
    /\ ComputesRollup(impl)
    /\ gen > 0
    /\ \E k \in DOMAIN view.dcs :
           /\ Cardinality(StoresOfDc(view.dcs[k].dc_id)) = 2
           /\ view.dcs[k].rollup_health.n = 2
           /\ StoresOfDc(view.dcs[k].dc_id) \cap view.stores # StoresOfDc(view.dcs[k].dc_id)
           /\ \E i, j \in StoresOfDc(view.dcs[k].dc_id) : stores[i].health # stores[j].health

\* C23: a DC is among the visible DCs exactly if at least one of its stores
\* satisfies the division and the assignment predicate of the current filter
\* state; the selected dc plays no part.
C23_DcVisibleByStores ==
    HasDcLayer(impl) =>
        \A d \in DcIds :
            (\E k \in DOMAIN view.dcs : view.dcs[k].dc_id = d)
                <=> \E i \in StoresOfDc(d) :
                        /\ division = All \/ stores[i].division = division
                        /\ ~onlyAssigned \/ stores[i].assigned

-----------------------------------------------------------------------------
(* Navigation *)

\* the store click listener is registered and the surface it listens on exists
TakesStoreClicks == HasStoreClick(impl) /\ work.wire > 0 /\ ~map.removed

\* C24: a click on a store emits a navigation intent whose period, when one is
\* attached, is the period selected at the time of the click; a switch of the
\* period leaves the surface in place, so that stores can be clicked after it
C24_ClickCarriesPeriod ==
    /\ last.op = "clickStore" => nav.id \in StoreIds /\ nav.period \in {"", period}
    /\ HasPeriod(impl) /\ work.wire > 0 => TakesStoreClicks

-----------------------------------------------------------------------------
(* A click on a DC marker against the DC selector *)

\* the DC marker id can be clicked in the current state
CanClickDc(id) ==
    /\ phase = "idle" /\ HasDcLayer(impl) /\ ready /\ ~map.removed /\ map.styleLoaded
    /\ rendered(map, DcLayer(impl))
    /\ id \in map.dcsData.feats

\* the DC id can be picked in the selector in the current state
CanSelectDc(id) == phase = "idle" /\ id \in Range(view.options) /\ id # dc

\* the map after the commit of dc = id and its effects, started from the map s
AfterCommit(s, id) ==
    effects(impl, Machine(s, ready),
            Closure(gen + 1, Filter(division, id, onlyAssigned)), Current).s

\* the map after a click on the marker of DC id and the effects of its commit
AfterClick(id) == AfterCommit(onDcClick(impl, Machine(map, ready), id).s, id)

\* the map after the selector was set to id and the effects of its commit
AfterSelect(id) == AfterCommit(map, id)

\* what the claim compares: pushed data, visibility of the layers, camera target
Outcome(s) ==
    [storesFeats |-> s.storesData.feats, dcsFeats |-> s.dcsData.feats,
     hidden |-> s.hidden, target |-> s.target]

\* from the same state, the click and the pick of a DC both can reach end in
\* the same pushed data, visibility of the layers and camera target
SameOutcome ==
    \A id \in DcIds :
        CanClickDc(id) /\ CanSelectDc(id) =>
            Outcome(AfterClick(id)) = Outcome(AfterSelect(id))

\* C25: a click on a DC marker is a pick of that DC in the selector: a DC that
\* can be clicked is one the selector offers, and from the same state both end
\* in the same pushed data, visibility of the layers and camera target
C25_ClickIsSelect ==
    /\ \A id \in DcIds : CanClickDc(id) /\ id # dc => CanSelectDc(id)
    /\ SameOutcome
-----------------------------------------------------------------------------
(* Events without a user choice *)

\* C26: an error event of the engine changes neither the filter state nor the
\* derived data nor the ready flag nor the map, and the view takes the next
\* filter operation as before
C26_ErrorIsHarmless ==
    [][EngineError => /\ UNCHANGED <<division, dc, onlyAssigned, view, ready, map, gen>>
                      /\ phase' = "idle"]_vars

\* an error was reported to a ready view after a filter change
C26_Witness == last.op = "error" /\ ready /\ gen > 0

\* the view was mounted without an access token
TokenMissing == last.op = "mount" /\ last.arg = "no token"

\* C27: without an access token the view does not fail: it stands and takes
\* filter operations
C27_NoTokenNoFailure == TokenMissing => phase = "idle"

\* the calls of a step hold a request to resize that reached the surface
ResizeRequested == \E i \in DOMAIN calls' : calls'[i].op = "resize" /\ calls'[i].ok

\* C28: every change of the container's dimensions brings a resize request to
\* the surface, before and after filter changes, and the request changes
\* neither the filter state nor the data of a source
C28_ResizeOnEveryChange ==
    [][\A cause \in ResizeCauses :
          Resize(cause) => /\ ResizeRequested
                           /\ UNCHANGED <<division, dc, onlyAssigned>>
                           /\ map'.storesData = map.storesData
                           /\ map'.dcsData = map.dcsData]_vars

-----------------------------------------------------------------------------
(* The ready flag *)

\* C29: the ready flag never returns to false, so it becomes true at most
\* once, and it becomes true in the step in which the engine reports the
\* readiness the draft waits for
C29_ReadyOnce ==
    [][/\ ready => ready'
       /\ ~ready /\ ready' =>
             /\ map'.engine # map.engine
             /\ map'.engine = IF ReadyOn(impl) = "load" THEN "loaded" ELSE "styled"]_vars

\* the flag, set by the engine's report, is still set after later filter changes
C29_Witness == ready /\ map.engine = "loaded" /\ readyGen < gen /\ phase = "idle"

-----------------------------------------------------------------------------
(* The frame of the filter state *)

\* the user's actions on the pills, the selector, the checkbox and a DC marker
FilterOps == {"setDivision", "setDc", "setOnlyAssigned", "clickDc"}

\* an event that carries no choice of the user
EngineEvent ==
    \/ StyleLoad
    \/ SourcesIdle
    \/ Load
    \/ \E z \in ZoomLevels : ZoomEnd(z)
    \/ EngineError
    \/ \E cause \in ResizeCauses : Resize(cause)
    \/ \E id \in HoverLayers(impl) : Hover(id)

\* C30: the filter state changes only in the handling of a pill, selector or
\* checkbox action or of a click on a DC marker; readiness, zoom, hover, error
\* and resize events leave division, dc and onlyAssigned as they are
C30_FilterStateFrame ==
    [][/\ Current' # Current => last'.op \in FilterOps
       /\ EngineEvent => Current' = Current]_vars

\* an event without a user choice was handled in a view with a filter set
C30_Witness ==
    /\ last.op \in {"zoomend", "hover", "error", "resize"}
    /\ Current # MountFilter
    /\ ready

-----------------------------------------------------------------------------
(* Pushes and the validity of the filter state *)

\* the effects of the committed render pushed its store collection in this step
PushesCommitted ==
    /\ phase = "effects"
    /\ \E i \in DOMAIN calls' :
          calls'[i].op = "setData" /\ calls'[i].id = "stores" /\ calls'[i].gen = gen
                                  /\ calls'[i].ok

\* C31: a store collection the effects push was derived from a valid filter
\* state: the dc of the render it belongs to is ALL or one of the options of
\* that render, also in the render between a division change and the dc reset
C31_NoPushFromInvalidState ==
    [][PushesCommitted => dc \in Range(view.options)]_vars

\* the last filter change was made on a ready map, its effects have run and the
\* engine has nothing left to load
Quiet == SettledOnReady /\ map.engine = "loaded" /\ map.styleLoaded

\* the source 'stores' holds the collection derived from the current filter state
StoresInSync == map.storesData.feats = view.stores

\* C32: no filter change made after readiness is dropped: when the changes
\* have stopped the source 'stores' holds the collection of the current filter
\* state, and the pushes reach the source in the order of the changes
C32_NoChangeDropped ==
    [][/\ Quiet' => StoresInSync'
       /\ ready => map'.storesData.gen >= map.storesData.gen]_vars

-----------------------------------------------------------------------------
(* The life of the map instance *)

\* C33: the map instance created at mount lives as long as the view: no change
\* of the filter state or of the period removes it
C33_InstanceOutlivesChanges == ~map.removed

\* C34: no method of the map is called once the map is removed: a callback of
\* a timer or an animation frame that fires after map.remove() calls nothing
C34_NoCallAfterRemove == [][map.removed => calls' = <<>>]_vars

-----------------------------------------------------------------------------
(* Listeners and navigation intents *)

\* C35: one click on a store emits one navigation intent, whichever readiness
\* events the engine fired: the click listener is registered once
C35_OneIntentPerClick == last.op = "clickStore" => nav.n = 1

-----------------------------------------------------------------------------
(* Tooltips *)

\* the band a class of the tooltip stands for
ClassBand(class) ==
    CASE class = "green" -> "healthy"
      [] class = "amber" -> "watch"
      [] OTHER -> "at-risk"

\* the class the store tooltip of the drafts with health classes shows
storeTooltipClass(v, h) ==
    IF v = "Part006b" THEN tooltipClass_Part006b(h, 1) ELSE tooltipClass_HomemapA(h)

\* C36: the band a tooltip shows for a feature is the band of the colour the
\* feature is drawn in, for every store and every DC roll-up, also for values
\* just below 80 and just below 60
C36_TooltipBandIsColourBand ==
    HasDcLayer(impl) =>
        /\ \A i \in DOMAIN view.colors :
               ClassBand(storeTooltipClass(impl, stores[i].health)) = Band(view.colors[i])
        /\ impl = "Part006b" =>
               \A k \in DOMAIN view.dcs :
                   LET r == view.dcs[k].rollup_health
                   IN ClassBand(tooltipClass_Part006b(r.sum, r.n)) = Band(dcColor_Part006b(r))

-----------------------------------------------------------------------------
(* The region highlight *)

\* the drafts that highlight the polygon of the selected division, and the
\* layer whose filter selects it
HasHighlight(v) == v \in {"HomemapA", "HomemapB", "Part004b"}
RegionLayer(v) == IF v = "HomemapA" THEN "region-lines" ELSE "region-outline"

\* the calls of log put the highlight on the polygon of division d; for
\* d = All, they put it on no polygon
Highlighted(v, log, d) ==
    IF d # All
    THEN \E i \in DOMAIN log : /\ log[i].op = "setFilter" /\ log[i].id = RegionLayer(v)
                               /\ log[i].arg = [k |-> "division", v |-> d] /\ log[i].ok
    ELSE \A i \in DOMAIN log :
             (/\ log[i].op = "setFilter" /\ log[i].id = RegionLayer(v) /\ log[i].ok
              /\ log[i].arg.k = "division") => log[i].arg.v \in {"null", "___none___"}

\* the effects of a change of the division have run on a ready map
DivisionProcessed ==
    /\ phase = "effects" /\ phase' = "idle"
    /\ ready /\ ~map'.removed
    /\ division # prev.division

\* the step in which the view becomes ready
BecomesReady == ~ready /\ ready'

\* C37: with dc = ALL the highlight follows the division: the processing of a
\* division change on a ready map, and the readiness handler for the changes
\* made before it, leave the highlight on the polygon of the current division,
\* and on none for All
C37_HighlightFollowsDivision ==
    [][HasHighlight(impl) /\ dc' = ALL /\ (DivisionProcessed \/ BecomesReady)
           => Highlighted(impl, calls', division')]_vars

-----------------------------------------------------------------------------
(* The selection and the options of the selector *)

\* the operations on the FilterState have been applied and their effects run
Applied == phase = "idle" /\ last.op \in {"setDivision", "setDc", "setOnlyAssigned"}

\* C38: after any sequence of setDivision, setDc and setOnlyAssigned the
\* selected dc is one of the options the DC selector offers for the current
\* state, also after a change of onlyAssigned that shrinks the list
C38_DcIsOffered == Applied => dc \in Range(dcOptions(impl, Current))

-----------------------------------------------------------------------------
(* Settling of the effects *)

\* the step that runs the effects of the pending commit
EffectsRun == phase = "effects" /\ prev' # prev

\* the state between the run of the reset effect, which has scheduled the
\* render with dc = ALL, and the run of the effects of that render
ResetScheduled ==
    /\ phase = "effects" /\ last.op = "setDivision"
    /\ prev.division = division /\ prev.dc # ALL /\ dc = ALL

\* C39: every user action settles after at most two runs of the effects: a run
\* of the effects either ends with no state update scheduled, or it is the run
\* for a change of the division in which the reset effect schedules dc = ALL,
\* and then the division of the scheduled render is the one already seen, so
\* the run of its effects schedules nothing: the reset effect never re-triggers
\* itself
C39_EffectsSettle ==
    [][EffectsRun => \/ phase' = "idle"
                     \/ /\ division # prev.division
                        /\ division' = prev'.division
                        /\ dc' = ALL /\ dc # ALL]_vars

====
